---- MODULE Spec2Model ----
(***************************************************************************)
(* bpfcov (src/cli/cli.c): the `run` tracer, which follows a child through *)
(* its syscalls and pins the coverage maps it creates, the pin checks of   *)
(* root_parse, and the `gen` writer of the profraw file.                   *)
(***************************************************************************)
EXTENDS Integers, Sequences, FiniteSets, TLC

\* ------------------------------------------------------------------ bounds
MaxInvocations == 2     \* invocations of the tool in one behaviour
MaxSyscalls == 2        \* syscalls the traced child makes in one run
MaxSignals == 1         \* signals the traced child stops for in one run

\* ------------------------------------------------------- program constants
NUM_PINNED_MAPS == 4
SYS_bpf == 321
SYS_read == 0
SYS_kill == 62
SYS_exit_group == 231
SYS_execve == 59
ENOSYS_RESULT == -38    \* rax at a syscall-entry stop: -ENOSYS
BPF_MAP_CREATE == 0
BPF_MAP_LOOKUP_ELEM == 1
SIGKILL == 9
EXIT_FAILURE == 1
argp_err_exit_status == 1
FUNC_RECORD_SIZE == 48
COUNTER_SIZE == 8
VERSION_OFFSET == 12

Roles == 0 .. (NUM_PINNED_MAPS - 1)

NoPin == [kind |-> "nopin"]
NoStatus == -1
NoTerm == [kind |-> "alive", code |-> 0]
File == [kind |-> "file"]
NoObj == [kind |-> "none"]

\* --------------------------------------------------------------- strings
\* C strings are sequences of one-character strings (without the final NUL).
S_profc == <<"p", "r", "o", "f", "c">>
S_profd == <<"p", "r", "o", "f", "d">>
S_profn == <<"p", "r", "o", "f", "n">>
S_covmap == <<"c", "o", "v", "m", "a", "p">>

NUL == ""
CharAt(s, i) == IF i <= Len(s) THEN s[i] ELSE NUL

\* strncmp(s, t, n) == 0: the strings agree on their first n characters, or
\* up to and including the NUL that ends both.
StrnEq(s, t, n) ==
    \A i \in 1 .. n :
        (\A j \in 1 .. (i - 1) : CharAt(t, j) # NUL) => CharAt(s, i) = CharAt(t, i)

\* The tokens strtok() hands out for s in turn: the maximal runs of
\* characters other than sep, in order.
RECURSIVE Tokens(_, _, _, _)
Tokens(s, sep, i, cur) ==
    IF i > Len(s)
    THEN IF cur = <<>> THEN <<>> ELSE <<cur>>
    ELSE IF s[i] = sep
         THEN IF cur = <<>>
              THEN Tokens(s, sep, i + 1, <<>>)
              ELSE <<cur>> \o Tokens(s, sep, i + 1, <<>>)
         ELSE Tokens(s, sep, i + 1, Append(cur, s[i]))

NullStr == <<NUL>>      \* the NULL pointer strtok returns when no token is left

\* strtok(name, "."); suffix = strtok(NULL, ".")
Suffix(name) ==
    LET toks == Tokens(name, ".", 1, <<>>)
    IN  IF Len(toks) >= 2 THEN toks[2] ELSE NullStr

NoRole == NUM_PINNED_MAPS

\* get_pin_path: the index into args->pin, or NoRole when it returns 0.
get_pin_path(suffix) ==
    IF StrnEq(suffix, S_profc, 5) THEN 0
    ELSE IF StrnEq(suffix, S_profd, 5) THEN 1
    ELSE IF StrnEq(suffix, S_profn, 5) THEN 2
    ELSE IF StrnEq(suffix, S_covmap, 6) THEN 3
    ELSE NoRole

\* ------------------------------------------------------------------ maps
\* A kernel map: its bpf_map_info fields, its entries (the values, in key
\* order) and the invocation whose traced child created it (0: before the
\* behaviour starts).
Val(n, seed) == [i \in 1 .. n |-> (seed + 7 * i) % 256]

Map(name, vsize, maxent, ents, run) ==
    [kind |-> "map", name |-> name, value_size |-> vsize,
     max_entries |-> maxent, entries |-> ents, run |-> run]

Named(suffix) == <<"x", ".">> \o suffix

RoleSuffix(p) ==
    CASE p = 0 -> S_profc [] p = 1 -> S_profd [] p = 2 -> S_profn [] OTHER -> S_covmap

RoleValueSize(p) ==
    CASE p = 0 -> COUNTER_SIZE [] p = 1 -> FUNC_RECORD_SIZE [] p = 2 -> 4 [] OTHER -> 16

\* The names of the maps the traced child creates.
ChildMapNames ==
    { Named(RoleSuffix(p)) : p \in Roles } \cup
    { Named(<<"d", "a", "t", "a">>),        \* another map of the program
      Named(S_profc \o <<"s">>),            \* a suffix that starts with a token
      <<"m", "a", "p">>,                    \* no separator
      <<>> }                                \* an unnamed map

NewMap(name, run) ==
    LET r == get_pin_path(Suffix(name))
        n == IF r \in Roles THEN RoleValueSize(r) ELSE 4
    IN  Map(name, n, 1, <<Val(n, run)>>, run)

StaleMap(p) == Map(Named(RoleSuffix(p)), RoleValueSize(p), 1, <<Val(RoleValueSize(p), 0)>>, 0)

\* ------------------------------------------------------------ pin paths
\* The path root_parse builds for role p: "<bpffs>/cov/<program>/<suffix>",
\* as the directories below the bpffs and the leaf.
PinPath(p) == [dir |-> <<"cov", "prog">>, leaf |-> RoleSuffix(p)]
NoPath == [dir |-> <<>>, leaf |-> <<>>]
Clobbered == [dir |-> <<"?">>, leaf |-> <<"?">>]

\* What args->pin[p] spells when it is read after root_parse has returned:
\* it points to an array of root_parse's frame, whose bytes are still there
\* (intact) or have been written over.
PathRead(p, intact) == IF intact THEN PinPath(p) ELSE Clobbered

\* ------------------------------------------------- the paths of root_parse
\* snprintf(buf, PATH_MAX, "%s/%s", a, b), for strings that fit.
Join(a, b) == a \o <<"/">> \o b

\* basename() of <string.h> under _GNU_SOURCE: what follows the last "/".
RECURSIVE basename(_)
basename(path) ==
    IF path = <<>> THEN <<>>
    ELSE IF path[Len(path)] = "/" THEN <<>>
    ELSE Append(basename(SubSeq(path, 1, Len(path) - 1)), path[Len(path)])

\* replace_with(str, what, with): every what of the string becomes with.
replace_with(str, what, with) ==
    [i \in 1 .. Len(str) |-> IF str[i] = what THEN with ELSE str[i]]

S_cov == <<"c", "o", "v">>

\* The paths ARGP_KEY_FINI sets up from args->bpffs and args->program[0]:
\* how far it gets is stage (0: it ends before cov_root is assigned, 1:
\* before prog_root is, 2: all of them are set).
cov_root(bpffs) == Join(bpffs, S_cov)
prog_root_sane(bpffs, program) ==
    replace_with(Join(cov_root(bpffs), basename(program)), ".", "_")
pin_path(bpffs, program, p) == Join(prog_root_sane(bpffs, program), RoleSuffix(p))

Args(bpffs, program) ==
    [bpffs |-> bpffs, program |-> program, cov_root |-> <<>>, prog_root |-> <<>>, pin |-> <<>>]

ParsedArgs(a, stage) ==
    [a EXCEPT
        !.cov_root = IF stage >= 1 THEN cov_root(a.bpffs) ELSE <<>>,
        !.prog_root = IF stage >= 2 THEN prog_root_sane(a.bpffs, a.program) ELSE <<>>,
        !.pin = IF stage >= 2
                THEN [i \in 1 .. NUM_PINNED_MAPS |-> pin_path(a.bpffs, a.program, i - 1)]
                ELSE <<>>]

\* The default of --bpffs, "/sys/fs/bpf", and a program on the command line.
DefaultBpffs == <<"/", "s", "y", "s", "/", "f", "s", "/", "b", "p", "f">>
DefaultProgram == <<".", "/", "p", "r", "o", "g">>

\* ----------------------------------------------------------------- state
VARIABLES
    pins,       \* the bpffs: role path -> the map pinned there, or NoPin
    dirs,       \* the directories that exist under the bpffs: "cov", "prog"
    outfile,    \* the bytes of the file at the output path of this invocation
    inv,        \* invocations of the tool so far
    command,    \* args->command of the current invocation
    args,       \* its args->bpffs, program[0], cov_root, prog_root and pin[]
    pc,         \* where the current invocation stands
    status,     \* its exit status, NoStatus while it runs
    diag,       \* the error message it has ended with, "" if none
    lastRun,    \* the latest invocation whose run() forked a child
    unpinned,   \* this invocation has unlinked a pin (and warned about it)
    pathUsed,   \* the path args->pin[p] gave at its latest use after root_parse
    is_map, regs, sysc, comm, result,   \* locals of run()
    tracerFds,  \* descriptors open in the tracer: "pidfd", "curfd"
    childState, \* "none", "init_stop", "running", "entry_stop", "in_syscall", "exit_stop",
                \* "signal_stop", "dead"
    childRegs,  \* the registers of the stopped child
    childSys,   \* the syscall the child is in
    childFds,   \* the child's descriptors 3, 4, ...: the objects they refer to
    childTerm,  \* how the child ended
    nsys,       \* syscalls the child has entered
    nsig,       \* signals the child has stopped for
    exitkill,   \* PTRACE_O_EXITKILL is set on the child
    gp,         \* gen(): the maps whose info has been read so far
    info,       \* gen(): the bpf_map_info structs
    outfp       \* gen(): the output stream: open, and whether a write failed

fsVars == <<pins, dirs>>
toolVars == <<inv, command, args, pc, status, diag, lastRun, unpinned, pathUsed>>
runVars == <<is_map, regs, sysc, comm, result, tracerFds>>
childVars == <<childState, childRegs, childSys, childFds, childTerm, nsys, nsig, exitkill>>
genVars == <<gp, info, outfp, outfile>>
vars == <<fsVars, toolVars, runVars, childVars, genVars>>

ChildPid == 7
NoRegs == [orig_rax |-> 0, rdi |-> 0, rax |-> 0]
NoSys == [nr |-> 0, arg0 |-> 0, name |-> <<>>]
NoInfo == [value_size |-> 0, max_entries |-> 0]
NoStream == [open |-> FALSE, err |-> FALSE]


\* The object descriptor n of the child refers to (0, 1 and 2 are its
\* standard streams).
ChildFdObj(n) ==
    IF n \in 0 .. 2 THEN File
    ELSE IF n >= 3 /\ n - 2 <= Len(childFds) THEN childFds[n - 2]
    ELSE NoObj

\* The syscalls the traced child makes: number, first argument and, for a
\* map creation, the name in its attributes.
Sys(nr, arg0, name) == [nr |-> nr, arg0 |-> arg0, name |-> name]
ExitCodes == {0, 2}
Syscalls ==
    { Sys(SYS_bpf, BPF_MAP_CREATE, n) : n \in ChildMapNames } \cup
    { Sys(SYS_bpf, BPF_MAP_LOOKUP_ELEM, <<>>),
      Sys(SYS_read, 0, <<>>),
      Sys(SYS_kill, ChildPid, <<>>) } \cup
    { Sys(SYS_exit_group, c, <<>>) : c \in ExitCodes }
ReadResults == {0, 1, 3}

\* exit(n): the status the parent of the tool sees.
ExitStatus(n) == n % 256

Exited(code) == [kind |-> "exited", code |-> ExitStatus(code)]
Signaled(sig) == [kind |-> "signaled", code |-> sig]

ChildAlive == childState \notin {"none", "dead"}

\* The ptrace-stops waitpid() returns for: run() asks for no status, and
\* without PTRACE_O_TRACESYSGOOD it could not tell them apart anyway.
Stops == {"init_stop", "entry_stop", "exit_stop", "signal_stop"}

\* A resume that leaves the child where it is.
ResumedNowhere(st) == st

\* ptrace(PTRACE_SYSCALL, pid, 0, 0) on a stopped child: from the entry stop
\* the kernel runs the syscall; from any other stop the child goes back to
\* its own code (a signal it had stopped for is dropped).
Resumed(st) == IF st = "entry_stop" THEN "in_syscall" ELSE "running"

\* ------------------------------------------------------------------- Init
Init ==
    /\ \E present \in SUBSET Roles :
           pins = [p \in Roles |-> IF p \in present THEN StaleMap(p) ELSE NoPin]
    /\ dirs \in {{}, {"cov"}, {"cov", "prog"}}
    /\ (\E p \in Roles : pins[p] # NoPin) => dirs = {"cov", "prog"}
    /\ outfile = <<>>
    /\ inv = 0
    /\ command = "none"
    /\ args = Args(DefaultBpffs, DefaultProgram)
    /\ pc = "idle"
    /\ status = NoStatus
    /\ diag = ""
    /\ lastRun = 0
    /\ unpinned = FALSE
    /\ pathUsed = NoPath
    /\ is_map = 0
    /\ regs = NoRegs
    /\ sysc = 0
    /\ comm = 0
    /\ result = 0
    /\ tracerFds = <<>>
    /\ childState = "none"
    /\ childRegs = NoRegs
    /\ childSys = NoSys
    /\ childFds = <<>>
    /\ childTerm = NoTerm
    /\ nsys = 0
    /\ nsig = 0
    /\ exitkill = FALSE
    /\ gp = 0
    /\ info = [p \in Roles |-> NoInfo]
    /\ outfp = NoStream

\* ------------------------------------------------------------- invocation
\* main/root: a new process of the tool starts parsing its arguments.
Invoke(c) ==
    /\ pc \in {"idle", "exited"}
    /\ inv < MaxInvocations
    /\ inv' = inv + 1
    /\ command' = c
    /\ args' = Args(args.bpffs, args.program)
    /\ pc' = "parse"
    /\ status' = NoStatus
    /\ diag' = ""
    /\ is_map' = 0
    /\ regs' = NoRegs
    /\ sysc' = 0
    /\ comm' = 0
    /\ result' = 0
    /\ tracerFds' = <<>>
    /\ childState' = "none"
    /\ childRegs' = NoRegs
    /\ childSys' = NoSys
    /\ childFds' = <<>>
    /\ childTerm' = NoTerm
    /\ nsys' = 0
    /\ nsig' = 0
    /\ exitkill' = FALSE
    /\ gp' = 0
    /\ info' = [p \in Roles |-> NoInfo]
    /\ outfp' = NoStream
    /\ outfile' = <<>>
    /\ unpinned' = FALSE
    /\ pathUsed' = NoPath
    /\ UNCHANGED <<fsVars, lastRun>>

AccessAlways(fs, p) == TRUE

\* access(args->pin[p], F_OK) == 0
AccessOk(fs, p) == fs[p] # NoPin

\* for (p = from; p < n; p++): the check of the pin paths. unlinkFails are
\* the paths whose unlink() would fail.
RECURSIVE PinLoop(_, _, _, _, _)
PinLoop(n, p, fs, cmd, unlinkFails) ==
    IF p >= n THEN [err |-> FALSE, pins |-> fs, msg |-> ""]
    ELSE IF AccessOk(fs, p)
         THEN IF cmd = "run"
              THEN IF p \in unlinkFails
                   THEN [err |-> TRUE, pins |-> fs, msg |-> "could not unpin map"]
                   ELSE PinLoop(n, p + 1, [fs EXCEPT ![p] = NoPin], cmd, unlinkFails)
              ELSE PinLoop(n, p + 1, fs, cmd, unlinkFails)
         ELSE IF cmd = "gen"
              THEN [err |-> TRUE, pins |-> fs, msg |-> "could not access map"]
              ELSE PinLoop(n, p + 1, fs, cmd, unlinkFails)

CheckPinsOffByOne(fs, cmd, unlinkFails) ==
    PinLoop(NUM_PINNED_MAPS - 1, 0, fs, cmd, unlinkFails)

\* The loop taken as that of a run whatever the subcommand is.
CheckPinsAsRun(fs, cmd, unlinkFails) == PinLoop(NUM_PINNED_MAPS, 0, fs, "run", unlinkFails)

\* The loop of ARGP_KEY_FINI over the NUM_PINNED_MAPS pin paths.
CheckPins(fs, cmd, unlinkFails) == PinLoop(NUM_PINNED_MAPS, 0, fs, cmd, unlinkFails)

\* mkdir(path, 0700) && errno != EEXIST: an existing directory is no error.
MkdirFails(ds, d, ok) == d \notin ds /\ ~ok

\* root_parse, ARGP_KEY_FINI as a function of the file system and of what
\* the environment lets succeed: the bpffs check, the two directories of a
\* run, then the check of the existing pins.
Fini(fs, ds, cmd, mounted, mkCovOk, mkProgOk, unlinkFails) ==
    IF ~mounted
    THEN [err |-> TRUE, pins |-> fs, dirs |-> ds, stage |-> 0,
          msg |-> "the BPF filesystem is not mounted"]
    ELSE IF cmd = "run" /\ MkdirFails(ds, "cov", mkCovOk)
    THEN [err |-> TRUE, pins |-> fs, dirs |-> ds, stage |-> 0, msg |-> "could not create"]
    ELSE IF cmd = "run" /\ MkdirFails(ds, "prog", mkProgOk)
    THEN [err |-> TRUE, pins |-> fs, dirs |-> ds \cup {"cov"}, stage |-> 1,
          msg |-> "could not create"]
    ELSE LET r == CheckPins(fs, cmd, unlinkFails)
         IN  [err |-> r.err, pins |-> r.pins, msg |-> r.msg, stage |-> 2,
              dirs |-> IF cmd = "run" THEN ds \cup {"cov", "prog"} ELSE ds]

\* argp_error exits with argp_err_exit_status.
RootParseFini ==
    /\ pc = "parse"
    /\ \E mounted \in BOOLEAN, mkCovOk \in BOOLEAN, mkProgOk \in BOOLEAN,
          unlinkFails \in SUBSET Roles :
        LET r == Fini(pins, dirs, command, mounted, mkCovOk, mkProgOk, unlinkFails)
        IN  /\ dirs' = r.dirs
            /\ pins' = r.pins
            /\ unpinned' = (\E p \in Roles : pins[p] # NoPin /\ r.pins[p] = NoPin)
            /\ diag' = r.msg
            /\ args' = ParsedArgs(args, r.stage)
            /\ IF r.err
               THEN pc' = "exited" /\ status' = argp_err_exit_status
               ELSE pc' = "dispatch" /\ status' = status
    /\ UNCHANGED <<inv, command, lastRun, pathUsed, runVars, childVars, genVars>>

\* root(): this.command(&this), or "TBD" when no subcommand was given.
RootDispatch ==
    /\ pc = "dispatch"
    /\ IF command = "run" THEN pc' = "run_fork" /\ status' = status /\ diag' = diag
       ELSE IF command = "gen" THEN pc' = "gen_info" /\ status' = status /\ diag' = diag
       ELSE pc' = "exited" /\ status' = 0 /\ diag' = "TBD"
    /\ UNCHANGED <<fsVars, inv, command, args, lastRun, unpinned, pathUsed, runVars, childVars, genVars>>

\* -------------------------------------------------------------------- run
\* The tool exits with status n: a child that is still alive is killed when
\* PTRACE_O_EXITKILL is set, and left running otherwise.
ToolExit(n, msg) ==
    /\ pc' = "exited"
    /\ status' = n
    /\ diag' = msg
    /\ IF ChildAlive /\ exitkill
       THEN childState' = "dead" /\ childTerm' = Signaled(SIGKILL)
       ELSE UNCHANGED <<childState, childTerm>>

SetOptionsNever(stopped) == FALSE

\* ptrace(PTRACE_SETOPTIONS, pid, 0, PTRACE_O_EXITKILL): the option is set
\* when the child is in a ptrace-stop, and the call fails with ESRCH when it
\* is gone.
SetOptions(stopped) == stopped

\* fork(); the child asks to be traced and execs the program; the parent
\* waits for its first stop and sets PTRACE_O_EXITKILL (neither result is
\* looked at). A child whose exec fails exits without ever stopping, and
\* PTRACE_SETOPTIONS then fails with ESRCH; on a stopped child it succeeds
\* (every kernel that has pidfd_getfd knows PTRACE_O_EXITKILL). The child
\* that has stopped holds the registers of its execve.
RunFork ==
    /\ pc = "run_fork"
    /\ \E forkOk \in BOOLEAN, execOk \in BOOLEAN :
        IF ~forkOk
        THEN /\ pc' = "exited"
             /\ status' = EXIT_FAILURE
             /\ diag' = "run: fork"
             /\ UNCHANGED <<lastRun, childState, childRegs, childTerm, exitkill>>
        ELSE /\ pc' = "loop_top"
             /\ UNCHANGED <<status, diag>>
             /\ lastRun' = inv
             /\ IF execOk
                THEN /\ childState' = "init_stop" /\ childTerm' = childTerm
                     /\ childRegs' = [orig_rax |-> SYS_execve, rdi |-> 0, rax |-> 0]
                     /\ exitkill' = SetOptions(TRUE)
                ELSE /\ childState' = "dead" /\ childTerm' = Exited(EXIT_FAILURE)
                     /\ childRegs' = childRegs
                     /\ exitkill' = SetOptions(FALSE)
    /\ UNCHANGED <<fsVars, inv, command, args, unpinned, pathUsed, runVars, childSys, childFds, nsys, nsig,
                   genVars>>

\* ptrace(PTRACE_SYSCALL) at the top of the loop: it fails when the child is
\* gone, and otherwise lets the stopped child run.
RunResumeEntry ==
    /\ pc = "loop_top"
    /\ IF childState = "dead"
       THEN ToolExit(EXIT_FAILURE, "run: ptrace")
       ELSE /\ pc' = "wait_entry"
            /\ childState' = Resumed(childState)
            /\ UNCHANGED <<status, diag, childTerm>>
    /\ UNCHANGED <<fsVars, inv, command, args, lastRun, unpinned, pathUsed, runVars, childRegs, childSys, childFds,
                   nsys, nsig, exitkill, genVars>>

\* The running child enters a syscall and stops.
ChildSyscallEntry(sc) ==
    /\ childState = "running"
    /\ nsys < MaxSyscalls
    /\ childState' = "entry_stop"
    /\ childSys' = sc
    /\ childRegs' = [orig_rax |-> sc.nr, rdi |-> sc.arg0, rax |-> ENOSYS_RESULT]
    /\ nsys' = nsys + 1
    /\ UNCHANGED <<fsVars, toolVars, runVars, childFds, childTerm, nsig, exitkill, genVars>>

\* waitpid() returns for the stopped or ended child; PTRACE_GETREGS; the
\* test that marks bpf(BPF_MAP_CREATE, ...). sysc and comm are the low 32
\* bits of the registers: every value the child of this model passes fits.
RunWaitEntry ==
    /\ pc = "wait_entry"
    /\ childState \in Stops \cup {"dead"}
    /\ IF childState = "dead"
       THEN /\ ToolExit(EXIT_FAILURE, "run: ptrace")
            /\ UNCHANGED <<regs, sysc, comm, is_map>>
       ELSE /\ regs' = childRegs
            /\ sysc' = childRegs.orig_rax
            /\ comm' = childRegs.rdi
            /\ is_map' = IF childRegs.orig_rax = SYS_bpf /\ childRegs.rdi = BPF_MAP_CREATE
                         THEN 1 ELSE is_map
            /\ pc' = "resume_exit"
            /\ UNCHANGED <<status, diag, childState, childTerm>>
    /\ UNCHANGED <<fsVars, inv, command, args, lastRun, unpinned, pathUsed, result, tracerFds, childRegs, childSys,
                   childFds, nsys, nsig, exitkill, genVars>>

\* ptrace(PTRACE_SYSCALL) that runs the syscall.
RunResumeExit ==
    /\ pc = "resume_exit"
    /\ IF childState = "dead"
       THEN ToolExit(EXIT_FAILURE, "run: ptrace")
       ELSE /\ pc' = "wait_exit"
            /\ childState' = Resumed(childState)
            /\ UNCHANGED <<status, diag, childTerm>>
    /\ UNCHANGED <<fsVars, inv, command, args, lastRun, unpinned, pathUsed, runVars, childRegs, childSys, childFds,
                   nsys, nsig, exitkill, genVars>>

\* The kernel runs the child's syscall: the child stops at its exit with the
\* result in rax, or ends in it.
ChildSyscallExit ==
    /\ childState = "in_syscall"
    /\ \/ /\ childSys.nr = SYS_bpf /\ childSys.arg0 = BPF_MAP_CREATE
          /\ \E ok \in BOOLEAN :
               IF ok
               THEN /\ childFds' = Append(childFds, NewMap(childSys.name, inv))
                    /\ childRegs' = [childRegs EXCEPT !.rax = Len(childFds) + 3]
               ELSE /\ childFds' = childFds
                    /\ childRegs' = [childRegs EXCEPT !.rax = -1]
          /\ childState' = "exit_stop"
          /\ UNCHANGED childTerm
       \/ /\ childSys.nr = SYS_bpf /\ childSys.arg0 = BPF_MAP_LOOKUP_ELEM
          /\ \E r \in {0, -2} : childRegs' = [childRegs EXCEPT !.rax = r]
          /\ childState' = "exit_stop"
          /\ UNCHANGED <<childFds, childTerm>>
       \/ /\ childSys.nr = SYS_read
          /\ \E r \in ReadResults : childRegs' = [childRegs EXCEPT !.rax = r]
          /\ childState' = "exit_stop"
          /\ UNCHANGED <<childFds, childTerm>>
       \/ /\ childSys.nr = SYS_exit_group
          /\ childState' = "dead"
          /\ childTerm' = Exited(childSys.arg0)
          /\ UNCHANGED <<childFds, childRegs>>
       \/ /\ childSys.nr = SYS_kill
          /\ childState' = "dead"
          /\ childTerm' = Signaled(SIGKILL)
          /\ UNCHANGED <<childFds, childRegs>>
    /\ UNCHANGED <<fsVars, toolVars, runVars, childSys, nsys, nsig, exitkill, genVars>>

\* A signal is pending when the child returns to its own code from its
\* latest syscall (SIGCHLD, SIGALRM, SIGPIPE, ...): the traced child stops
\* for its delivery, with the registers of that syscall.
ChildSignalStop ==
    /\ childState = "running"
    /\ nsig < MaxSignals
    /\ childState' = "signal_stop"
    /\ nsig' = nsig + 1
    /\ UNCHANGED <<fsVars, toolVars, runVars, childRegs, childSys, childFds, childTerm, nsys,
                   exitkill, genVars>>

\* Another process kills the child.
ChildKilled ==
    /\ ChildAlive
    /\ pc # "exited"
    /\ childState' = "dead"
    /\ childTerm' = Signaled(SIGKILL)
    /\ UNCHANGED <<fsVars, toolVars, runVars, childRegs, childSys, childFds, nsys, nsig,
                   exitkill, genVars>>

\* waitpid() and PTRACE_GETREGS at the exit of the syscall: when the child is
\* gone (ESRCH) the tool exits with regs.rdi as left by the entry stop.
RunWaitExit ==
    /\ pc = "wait_exit"
    /\ childState \in Stops \cup {"dead"}
    /\ IF childState = "dead"
       THEN /\ pc' = "exited"
            /\ status' = ExitStatus(regs.rdi)
            /\ diag' = diag
            /\ UNCHANGED <<regs, result>>
       ELSE /\ regs' = childRegs
            /\ result' = childRegs.rax
            /\ pc' = "pin"
            /\ UNCHANGED <<status, diag>>
    /\ UNCHANGED <<fsVars, inv, command, args, lastRun, unpinned, pathUsed, is_map, sysc, comm, tracerFds,
                   childVars, genVars>>

PinNeverFails(fs, role, pathIntact, pinOk) == FALSE

\* bpf_obj_pin(curfd, path): fails when the path exists already, when the
\* string args->pin[] points to is no longer the path, or for a reason of
\* the environment.
PinFails(fs, role, pathIntact, pinOk) == fs[role] # NoPin \/ ~pathIntact \/ ~pinOk

GetfdIgnoresDeath(getfdOk, childGone, obj) == ~getfdOk

\* curfd = pidfd_getfd(pidfd, result, 0) < 0: the child is gone, result is
\* no descriptor of it, or the environment refuses.
GetfdFails(getfdOk, childGone, obj) == ~getfdOk \/ childGone \/ obj = NoObj

\* What the block "Pin the bpfcov maps" does with the result of the syscall:
\* the descriptors it opens, the pin it makes, and how it ends ("continue":
\* next iteration, "fatal": log_fata, "crash": strncmp on the NULL suffix).
\* args->pin[] points into the frame root_parse has left: pathIntact says
\* whether the string is still there.
PinStep(fs, ismap, res, obj, childGone, pidfdOk, getfdOk, pathIntact, pinOk) ==
    IF ismap = 0 \/ res = 0
    THEN [end |-> "continue", fds |-> <<>>, pins |-> fs, used |-> <<>>]
    ELSE IF ~pidfdOk
    THEN [end |-> "continue", fds |-> <<>>, pins |-> fs, used |-> <<>>]
    ELSE IF GetfdFails(getfdOk, childGone, obj)
    THEN [end |-> "continue", fds |-> <<"pidfd">>, pins |-> fs, used |-> <<>>]
    ELSE IF obj.kind # "map" \/ Len(obj.name) = 0
    THEN [end |-> "continue", fds |-> <<"pidfd", "curfd">>, pins |-> fs, used |-> <<>>]
    ELSE IF Suffix(obj.name) = NullStr
    THEN [end |-> "crash", fds |-> <<"pidfd", "curfd">>, pins |-> fs, used |-> <<>>]
    ELSE LET role == get_pin_path(Suffix(obj.name))
         IN  IF role = NoRole
             THEN [end |-> "continue", fds |-> <<"pidfd", "curfd">>, pins |-> fs, used |-> <<>>]
             ELSE IF PinFails(fs, role, pathIntact, pinOk)
             THEN [end |-> "fatal", fds |-> <<"pidfd", "curfd">>, pins |-> fs,
                   used |-> <<PathRead(role, pathIntact)>>]
             ELSE [end |-> "continue", fds |-> <<"pidfd", "curfd">>,
                   pins |-> [fs EXCEPT ![role] = obj],
                   used |-> <<PathRead(role, pathIntact)>>]

SIGSEGV_STATUS == 139

\* The outcomes of a call of the environment: it succeeds or fails when it
\* is made, and is not made at all otherwise.
Outcomes(made) == IF made THEN BOOLEAN ELSE {TRUE}

\* The end of an iteration of the loop of run().
RunPinMaps ==
    /\ pc = "pin"
    /\ \E pidfdOk \in Outcomes(is_map # 0 /\ result # 0) :
       \E getfdOk \in Outcomes(is_map # 0 /\ result # 0 /\ pidfdOk) :
       \E pathIntact \in Outcomes(is_map # 0 /\ result # 0 /\ pidfdOk /\ getfdOk),
          pinOk \in Outcomes(is_map # 0 /\ result # 0 /\ pidfdOk /\ getfdOk),
          nullCrashes \in Outcomes(is_map # 0 /\ result # 0 /\ pidfdOk /\ getfdOk) :
        LET r == PinStep(pins, is_map, result, ChildFdObj(result), childState = "dead",
                         pidfdOk, getfdOk, pathIntact, pinOk)
        IN  /\ tracerFds' = tracerFds \o r.fds
            /\ pins' = r.pins
            /\ pathUsed' = IF r.used = <<>> THEN pathUsed ELSE r.used[1]
            /\ IF r.end = "fatal" THEN ToolExit(EXIT_FAILURE, "run: could not pin map")
               ELSE IF r.end = "crash" /\ nullCrashes THEN ToolExit(SIGSEGV_STATUS, "")
               ELSE /\ pc' = "loop_top"
                    /\ UNCHANGED <<status, diag, childState, childTerm>>
    /\ UNCHANGED <<dirs, inv, command, args, lastRun, unpinned, is_map, regs, sysc, comm, result,
                   childRegs, childSys, childFds, nsys, nsig, exitkill, genVars>>

\* -------------------------------------------------------------------- gen
\* n as w little-endian bytes.
RECURSIVE LE(_, _)
LE(n, w) == IF w = 0 THEN <<>> ELSE <<n % 256>> \o LE(n \div 256, w - 1)

\* b + 1 on a little-endian integer of Len(b) bytes, from byte i on.
RECURSIVE Incr(_, _)
Incr(b, i) ==
    IF i > Len(b) THEN b
    ELSE IF b[i] = 255 THEN Incr([b EXCEPT ![i] = 0], i + 1)
    ELSE [b EXCEPT ![i] = b[i] + 1]

MAGIC == <<129, 114, 102, 111, 114, 112, 108, 255>>

\* get_map_info(bpf_obj_get(path), &info): the fields gen() reads.
MapInfo(m) == [value_size |-> m.value_size, max_entries |-> m.max_entries]

\* The fetch without the test of max_entries.
get_first_value(fs, p, inf, pathIntact, openOk) ==
    IF ~pathIntact \/ ~openOk \/ fs[p] = NoPin THEN [err |-> TRUE, data |-> <<>>]
    ELSE IF Len(fs[p].entries) = 0 THEN [err |-> TRUE, data |-> <<>>]
    ELSE [err |-> FALSE, data |-> fs[p].entries[1]]

\* get_global_data(bpf_obj_get(args->pin[p]), &info, data): the value of the
\* first key, or an error.
get_global_data(fs, p, inf, pathIntact, openOk) ==
    IF ~pathIntact \/ ~openOk \/ fs[p] = NoPin THEN [err |-> TRUE, data |-> <<>>]
    ELSE IF inf.max_entries > 1 THEN [err |-> TRUE, data |-> <<>>]
    ELSE IF Len(fs[p].entries) = 0 THEN [err |-> TRUE, data |-> <<>>]
    ELSE [err |-> FALSE, data |-> fs[p].entries[1]]

\* memcpy(&version, &covmap_data[12], 4) into the zeroed long long; bytes
\* past the end of the value are whatever lies behind the allocation (oob).
VersionBytes(data, oob) ==
    [i \in 1 .. 8 |->
        IF i > 4 THEN 0
        ELSE IF VERSION_OFFSET + i <= Len(data) THEN data[VERSION_OFFSET + i]
        ELSE oob[i]]

\* The increment done on the four bytes read rather than on the long long.
VersionWrap32(data, oob) ==
    Incr(SubSeq(VersionBytes(data, oob), 1, 4), 1) \o <<0, 0, 0, 0>>

\* version += 1
VersionField(data, oob) == Incr(VersionBytes(data, oob), 1)

\* The data size divided by the width of a counter.
FuncNumByCounterSize(inf) == inf.value_size \div COUNTER_SIZE

\* long long func_num = profd_info.value_size / 48
FuncNum(inf) == inf.value_size \div FUNC_RECORD_SIZE

\* long long counters_num = profc_info.value_size / 8
CountersNum(inf) == inf.value_size \div COUNTER_SIZE

\* fwrite(&profn_info.value_size, 1, sizeof(profn_info.value_size) * 2, outfp):
\* the eight bytes at value_size, which are value_size and the field that
\* follows it in struct bpf_map_info, max_entries.
NamesField(inf) == LE(inf.value_size, 4) \o LE(inf.max_entries, 4)

\* The fields with the two counts in each other's place.
SizeFieldsSwapped(inf) ==
    << LE(CountersNum(inf[0]), 8), LE(0, 8), LE(FuncNum(inf[1]), 8), LE(0, 8),
       NamesField(inf[2]), LE(0, 8), LE(0, 8), LE(1, 8) >>

\* The fields gen() writes after the version, in order.
SizeFields(inf) ==
    << LE(FuncNum(inf[1]), 8), LE(0, 8), LE(CountersNum(inf[0]), 8), LE(0, 8),
       NamesField(inf[2]), LE(0, 8), LE(0, 8), LE(1, 8) >>

\* The first k of the chunks, concatenated.
RECURSIVE Concat(_, _)
Concat(chunks, k) ==
    IF k = 0 \/ chunks = <<>> THEN <<>>
    ELSE Head(chunks) \o Concat(Tail(chunks), k - 1)

\* fwrite of the chunks in turn on a stream: the first k writes succeed, and
\* once one has failed the stream takes no more bytes.
Written(file, stream, chunks, k) ==
    IF stream.err THEN file ELSE file \o Concat(chunks, k)
StreamAfter(stream, chunks, k) ==
    [stream EXCEPT !.err = stream.err \/ k < Len(chunks)]

GenFatal(msg) ==
    /\ pc' = "exited"
    /\ status' = EXIT_FAILURE
    /\ diag' = msg

InfoNeverFails(pin, pathIntact, openOk) == FALSE

\* get_map_info(bpf_obj_get(path), &info) != 0: the path is not the one of
\* a pin, or the environment refuses the open or the query.
InfoFails(pin, pathIntact, openOk) == ~pathIntact \/ ~openOk \/ pin = NoPin

\* One of the four get_map_info(bpf_obj_get(args->pin[gp]), ...) of gen().
GenGetMapInfo ==
    /\ pc = "gen_info"
    /\ \E pathIntact \in BOOLEAN, openOk \in BOOLEAN :
        /\ pathUsed' = PathRead(gp, pathIntact)
        /\ IF InfoFails(pins[gp], pathIntact, openOk)
           THEN GenFatal("could not get info about pinned map") /\ UNCHANGED <<gp, info>>
           ELSE /\ info' = [info EXCEPT ![gp] = MapInfo(pins[gp])]
                /\ gp' = gp + 1
                /\ pc' = IF gp + 1 = NUM_PINNED_MAPS THEN "gen_open" ELSE "gen_info"
                /\ UNCHANGED <<status, diag>>
    /\ UNCHANGED <<fsVars, inv, command, args, lastRun, unpinned, runVars, childVars, outfp, outfile>>

\* fopen(args->output, "wb")
GenOpenOutput ==
    /\ pc = "gen_open"
    /\ \E ok \in BOOLEAN :
        IF ~ok
        THEN GenFatal("could not open the output file") /\ UNCHANGED <<outfile, outfp>>
        ELSE /\ outfile' = <<>>
             /\ outfp' = [open |-> TRUE, err |-> FALSE]
             /\ pc' = "gen_magic"
             /\ UNCHANGED <<status, diag>>
    /\ UNCHANGED <<pins, dirs, inv, command, args, lastRun, unpinned, pathUsed, runVars, childVars, gp, info>>

GenWriteMagic ==
    /\ pc = "gen_magic"
    /\ \E k \in 0 .. 1 :
        /\ outfile' = Written(outfile, outfp, <<MAGIC>>, k)
        /\ outfp' = StreamAfter(outfp, <<MAGIC>>, k)
    /\ pc' = "gen_version"
    /\ UNCHANGED <<pins, dirs, inv, command, args, status, diag, lastRun, unpinned, pathUsed, runVars, childVars, gp, info>>

OobSamples == {<<0, 0, 0, 0>>, <<1, 2, 3, 4>>, <<255, 255, 255, 255>>}

GenWriteVersion ==
    /\ pc = "gen_version"
    /\ \E pathIntact \in BOOLEAN, openOk \in BOOLEAN, oob \in OobSamples, k \in 0 .. 1 :
        LET g == get_global_data(pins, 3, info[3], pathIntact, openOk)
            f == <<VersionField(g.data, oob)>>
        IN  /\ pathUsed' = PathRead(3, pathIntact)
            /\ IF g.err
               THEN GenFatal("could not get global data from map")
                    /\ UNCHANGED <<outfile, outfp>>
               ELSE /\ outfile' = Written(outfile, outfp, f, k)
                    /\ outfp' = StreamAfter(outfp, f, k)
                    /\ pc' = "gen_sizes"
                    /\ UNCHANGED <<status, diag>>
    /\ UNCHANGED <<pins, dirs, inv, command, args, lastRun, unpinned, runVars, childVars, gp, info>>

GenWriteSizes ==
    /\ pc = "gen_sizes"
    /\ \E k \in 0 .. Len(SizeFields(info)) :
        /\ outfile' = Written(outfile, outfp, SizeFields(info), k)
        /\ outfp' = StreamAfter(outfp, SizeFields(info), k)
    /\ pc' = "gen_data"
    /\ UNCHANGED <<pins, dirs, inv, command, args, status, diag, lastRun, unpinned, pathUsed, runVars, childVars, gp, info>>

\* The data part (p = 1, then "gen_counters") and the counters part (p = 0,
\* then "gen_close"): get_global_data and fwrite(data, value_size, 1, outfp).
GenWriteSection(at, p, next) ==
    /\ pc = at
    /\ \E pathIntact \in BOOLEAN, openOk \in BOOLEAN, k \in 0 .. 1 :
        LET g == get_global_data(pins, p, info[p], pathIntact, openOk)
        IN  /\ pathUsed' = PathRead(p, pathIntact)
            /\ IF g.err
               THEN GenFatal("could not get global data from map")
                    /\ UNCHANGED <<outfile, outfp>>
               ELSE /\ outfile' = Written(outfile, outfp, <<g.data>>, k)
                    /\ outfp' = StreamAfter(outfp, <<g.data>>, k)
                    /\ pc' = next
                    /\ UNCHANGED <<status, diag>>
    /\ UNCHANGED <<pins, dirs, inv, command, args, lastRun, unpinned, runVars, childVars, gp, info>>

\* The data part fetched from the path of the counters.
GenWriteDataFromCounters == GenWriteSection("gen_data", 0, "gen_counters")

GenWriteData == GenWriteSection("gen_data", 1, "gen_counters")
GenWriteCounters == GenWriteSection("gen_counters", 0, "gen_close")

\* fclose(outfp), whose result is not looked at; return 0; and main
\* returns 0.
GenClose ==
    /\ pc = "gen_close"
    /\ \E closeOk \in BOOLEAN :
         outfp' = [open |-> FALSE, err |-> outfp.err \/ ~closeOk]
    /\ pc' = "exited"
    /\ status' = 0
    /\ diag' = diag
    /\ UNCHANGED <<fsVars, inv, command, args, lastRun, unpinned, pathUsed, runVars, childVars, gp, info, outfile>>

GenNext ==
    \/ GenGetMapInfo
    \/ GenOpenOutput
    \/ GenWriteMagic
    \/ GenWriteVersion
    \/ GenWriteSizes
    \/ GenWriteData
    \/ GenWriteCounters
    \/ GenClose

\* ------------------------------------------------------------------- Next
RunNext ==
    \/ RunFork
    \/ RunResumeEntry
    \/ \E sc \in Syscalls : ChildSyscallEntry(sc)
    \/ RunWaitEntry
    \/ RunResumeExit
    \/ ChildSyscallExit
    \/ ChildKilled
    \/ RunWaitExit
    \/ RunPinMaps

Next ==
    \/ \E c \in {"run", "gen", "none"} : Invoke(c)
    \/ RootParseFini
    \/ RootDispatch
    \/ RunNext
    \/ GenNext

Spec == Init /\ [][Next]_vars

\* ------------------------------------------------- gen on arbitrary maps
\* The maps a gen invocation can find pinned: any map can sit at a role's
\* path, whatever its sizes, its entries and its contents.
MaxEntries == 2         \* the largest max_entries of a pinned map

DataSizes == {FUNC_RECORD_SIZE, 2 * FUNC_RECORD_SIZE, FUNC_RECORD_SIZE + 2}
CounterSizes == {COUNTER_SIZE, 5 * COUNTER_SIZE, COUNTER_SIZE + 4}
NameSizes == {1, 5}
Seeds == {0, 1}
VersionSamples ==
    { <<0, 0, 0, 0>>, <<3, 0, 0, 0>>, <<255, 0, 0, 0>>, <<255, 255, 0, 0>>,
      <<255, 255, 255, 127>>, <<255, 255, 255, 255>> }

\* A coverage-header value of n bytes with ver at bytes 12 to 15.
CovValue(n, ver) ==
    [i \in 1 .. n |->
        IF i > VERSION_OFFSET /\ i <= VERSION_OFFSET + 4 /\ i - VERSION_OFFSET <= Len(ver)
        THEN ver[i - VERSION_OFFSET] ELSE (3 * i) % 256]

\* The maps of value size n: with one entry, empty, or declared for more
\* entries than one.
MapsOfSize(name, n) ==
    { Map(name, n, 1, <<Val(n, sd)>>, 0) : sd \in Seeds } \cup
    { Map(name, n, 1, <<>>, 0) } \cup
    { Map(name, n, m, [i \in 1 .. m |-> Val(n, i)], 0) : m \in 2 .. MaxEntries }

GenMaps(p) ==
    CASE p = 0 -> UNION { MapsOfSize(Named(S_profc), n) : n \in CounterSizes }
      [] p = 1 -> UNION { MapsOfSize(Named(S_profd), n) : n \in DataSizes }
      [] p = 2 -> { Map(Named(S_profn), n, m, [i \in 1 .. m |-> Val(n, i)], 0) :
                        n \in NameSizes, m \in 1 .. MaxEntries }
      [] OTHER -> { Map(Named(S_covmap), 16, 1, <<CovValue(16, v)>>, 0) : v \in VersionSamples }
                  \cup { Map(Named(S_covmap), 20, 1, <<CovValue(20, <<3, 0, 0, 0>>)>>, 0),
                         Map(Named(S_covmap), 8, 1, <<CovValue(8, <<>>)>>, 0),
                         Map(Named(S_covmap), 16, 1, <<>>, 0),
                         Map(Named(S_covmap), 16, 2,
                             <<CovValue(16, <<3, 0, 0, 0>>), CovValue(16, <<0, 0, 0, 0>>)>>, 0) }

\* What a file of an earlier gen holds at the output path.
OldFile == <<0>>

\* A gen invocation that has passed root_parse: the four paths exist. The
\* output path names no file, or a file of before.
InitGen ==
    /\ \E c \in GenMaps(0), d \in GenMaps(1), n \in GenMaps(2), h \in GenMaps(3) :
           pins = [p \in Roles |-> CASE p = 0 -> c [] p = 1 -> d [] p = 2 -> n [] OTHER -> h]
    /\ dirs = {"cov", "prog"}
    /\ outfile \in {<<>>, OldFile}
    /\ inv = 1
    /\ command = "gen"
    /\ args = ParsedArgs(Args(DefaultBpffs, DefaultProgram), 2)
    /\ pc = "gen_info"
    /\ status = NoStatus
    /\ diag = ""
    /\ lastRun = 0
    /\ unpinned = FALSE
    /\ pathUsed = NoPath
    /\ is_map = 0
    /\ regs = NoRegs
    /\ sysc = 0
    /\ comm = 0
    /\ result = 0
    /\ tracerFds = <<>>
    /\ childState = "none"
    /\ childRegs = NoRegs
    /\ childSys = NoSys
    /\ childFds = <<>>
    /\ childTerm = NoTerm
    /\ nsys = 0
    /\ nsig = 0
    /\ exitkill = FALSE
    /\ gp = 0
    /\ info = [p \in Roles |-> NoInfo]
    /\ outfp = NoStream

SpecGen == InitGen /\ [][GenNext]_vars

\* ------------------------------------------- one run, with signals around
\* A run invocation that has passed root_parse: the directories exist and
\* no path does. Its child may stop for the delivery of signals as well.
InitTrace ==
    /\ pins = [p \in Roles |-> NoPin]
    /\ dirs = {"cov", "prog"}
    /\ outfile = <<>>
    /\ inv = 1
    /\ command = "run"
    /\ args = ParsedArgs(Args(DefaultBpffs, DefaultProgram), 2)
    /\ pc = "run_fork"
    /\ status = NoStatus
    /\ diag = ""
    /\ lastRun = 0
    /\ unpinned = FALSE
    /\ pathUsed = NoPath
    /\ is_map = 0
    /\ regs = NoRegs
    /\ sysc = 0
    /\ comm = 0
    /\ result = 0
    /\ tracerFds = <<>>
    /\ childState = "none"
    /\ childRegs = NoRegs
    /\ childSys = NoSys
    /\ childFds = <<>>
    /\ childTerm = NoTerm
    /\ nsys = 0
    /\ nsig = 0
    /\ exitkill = FALSE
    /\ gp = 0
    /\ info = [p \in Roles |-> NoInfo]
    /\ outfp = NoStream

\* The exit status a shell reports for a process that signal sig has killed.
KilledStatus(sig) == 128 + sig

\* Another process kills the tracer while it is in its loop: the kernel
\* kills the child with it when PTRACE_O_EXITKILL is set.
TracerKilled ==
    /\ pc \in {"loop_top", "wait_entry", "resume_exit", "wait_exit", "pin"}
    /\ ToolExit(KilledStatus(SIGKILL), "")
    /\ UNCHANGED <<fsVars, inv, command, args, lastRun, unpinned, pathUsed, runVars, childRegs, childSys,
                   childFds, nsys, nsig, exitkill, genVars>>

TraceNext ==
    \/ RunNext
    \/ ChildSignalStop
    \/ TracerKilled

SpecTrace == InitTrace /\ [][TraceNext]_vars

\* The tracer is a process that runs: a call it is about to make, or a
\* waitpid() that can return, is not put off for ever. Nothing is asked of
\* the child, which may stay in its own code as long as it likes.
TracerStep ==
    \/ RunFork
    \/ RunResumeEntry
    \/ RunWaitEntry
    \/ RunResumeExit
    \/ RunWaitExit
    \/ RunPinMaps

\* A child that draws its syscalls from a smaller set: one map of the
\* counters, one map without a separator in its name, a read, a kill of
\* itself and exit_group(2).
LiveSyscalls ==
    { Sys(SYS_bpf, BPF_MAP_CREATE, Named(S_profc)),
      Sys(SYS_bpf, BPF_MAP_CREATE, <<"m", "a", "p">>),
      Sys(SYS_read, 0, <<>>),
      Sys(SYS_kill, ChildPid, <<>>),
      Sys(SYS_exit_group, 2, <<>>) }

LiveNext ==
    \/ TracerStep
    \/ \E sc \in LiveSyscalls : ChildSyscallEntry(sc)
    \/ ChildSyscallExit
    \/ ChildSignalStop
    \/ ChildKilled
    \/ TracerKilled

SpecTraceLive == InitTrace /\ [][LiveNext]_vars /\ WF_vars(TracerStep)

\* ------------------------------------- root_parse on other command lines
\* Mount points given with --bpffs and programs given on the command line.
BpffsSamples ==
    { DefaultBpffs,
      <<"/", "b", ".", "d">>,
      <<".", "/", "b">>,
      <<"/", "m", "/", "b">> }
ProgramSamples ==
    { DefaultProgram,
      <<"p", ".", "o">>,
      <<".", "/", "d", ".", "d", "/", "p", ".", "o">>,
      <<"a", ".", "b", ".", "c">>,
      <<"/", "x", "/", "p">> }

\* An invocation about to run ARGP_KEY_FINI.
InitPath ==
    /\ \E present \in SUBSET Roles :
           pins = [p \in Roles |-> IF p \in present THEN StaleMap(p) ELSE NoPin]
    /\ dirs \in {{}, {"cov"}, {"cov", "prog"}}
    /\ (\E p \in Roles : pins[p] # NoPin) => dirs = {"cov", "prog"}
    /\ outfile = <<>>
    /\ inv = 1
    /\ command \in {"run", "gen", "none"}
    /\ \E b \in BpffsSamples, prog \in ProgramSamples : args = Args(b, prog)
    /\ pc = "parse"
    /\ status = NoStatus
    /\ diag = ""
    /\ lastRun = 0
    /\ unpinned = FALSE
    /\ pathUsed = NoPath
    /\ is_map = 0
    /\ regs = NoRegs
    /\ sysc = 0
    /\ comm = 0
    /\ result = 0
    /\ tracerFds = <<>>
    /\ childState = "none"
    /\ childRegs = NoRegs
    /\ childSys = NoSys
    /\ childFds = <<>>
    /\ childTerm = NoTerm
    /\ nsys = 0
    /\ nsig = 0
    /\ exitkill = FALSE
    /\ gp = 0
    /\ info = [p \in Roles |-> NoInfo]
    /\ outfp = NoStream

PathNext ==
    \/ RootParseFini
    \/ RootDispatch

SpecPath == InitPath /\ [][PathNext]_vars

\* ------------------------------------------------------------ properties
IsMapCreate == sysc = SYS_bpf /\ comm = BPF_MAP_CREATE

\* C1: when the loop of run() tests is_map after a syscall's exit stop, the
\* flag is set if and only if the syscall of this very iteration is
\* bpf(BPF_MAP_CREATE, ...): it does not carry over from an earlier syscall.
C1_IsMapOfThisIteration == pc = "pin" => (is_map = 1 <=> IsMapCreate)

\* An iteration that tests a flag a previous iteration has set.
C1_StaleFlagTested == pc = "pin" /\ is_map = 1 /\ ~IsMapCreate

\* C2: an iteration of the loop of run() whose syscall is not
\* bpf(BPF_MAP_CREATE, ...) ends with the pins and the tracer's descriptors
\* as they were (nothing duplicated out of the child, no pin tried), and
\* with run() going on.
C2_OtherSyscallLeavesPins ==
    [][(pc = "pin" /\ pc' # "pin" /\ ~IsMapCreate)
        => (pins' = pins /\ tracerFds' = tracerFds /\ pc' = "loop_top")]_vars

\* An iteration for a syscall other than the map creation has duplicated a
\* descriptor out of the child.
C2_OtherSyscallDuplicated ==
    pc = "loop_top" /\ ~IsMapCreate /\ nsys = 2 /\ Len(tracerFds) = 4

\* C3: when run() ends because the register read at the exit stop finds the
\* child gone, the child has exited and the status of the tool is the
\* child's exit status, however the child ended.
C3_StatusMirrorsChild ==
    [][(pc = "wait_exit" /\ pc' = "exited")
        => (childTerm.kind = "exited" /\ status' = childTerm.code)]_vars

\* The tool has ended that way for a child that a signal killed.
C3_KilledChildMirrored ==
    /\ command = "run" /\ pc = "exited" /\ childTerm.kind = "signaled"
    /\ childSys.nr = SYS_kill /\ status = ExitStatus(ChildPid)

AllAbsent(fs) == \A p \in Roles : fs[p] = NoPin
AllPresent(fs) == \A p \in Roles : fs[p] # NoPin

\* C4: a gen invocation that finds one of the four paths absent ends with a
\* status other than zero at the check, before it has read the info of any
\* map or opened the output; past the check all four paths exist.
C4_GenRequiresAllPins ==
    (command = "gen" /\ ~AllPresent(pins))
        => \/ pc = "parse"
           \/ /\ pc = "exited" /\ status # 0 /\ status # NoStatus
              /\ gp = 0 /\ info = [p \in Roles |-> NoInfo]
              /\ ~outfp.open /\ outfile = <<>>

\* A gen right after a run whose child pinned nothing has failed on the
\* empty pin root.
C4_GenFailedOnEmptyRoot ==
    /\ command = "gen" /\ inv = 2 /\ lastRun = 1 /\ AllAbsent(pins)
    /\ pc = "exited" /\ status = argp_err_exit_status

\* C5: from the check of a run on, the pins that exist are those its own
\* child had pinned, none is left from an earlier run, unless an unlink has
\* failed: then the run has ended with a status other than zero and without
\* a child. At the fork no path exists, and whatever a gen finds is of the
\* latest run that forked.
C5_RunStartsFromNoPins ==
    /\ (command = "run" /\ pc # "parse")
        => \/ \A p \in Roles : pins[p] # NoPin => pins[p].run = inv
           \/ /\ pc = "exited" /\ status # 0 /\ status # NoStatus
              /\ childState = "none" /\ lastRun # inv
    /\ (command = "run" /\ pc \in {"dispatch", "run_fork"}) => AllAbsent(pins)
    /\ (command = "gen") => \A p \in Roles : pins[p] # NoPin => pins[p].run = lastRun

\* A run has unlinked the pins of before, and its child has pinned a map.
C5_RunReplacedPins ==
    /\ command = "run" /\ unpinned /\ childState # "none"
    /\ \E p \in Roles : pins[p] # NoPin /\ pins[p].run = inv

\* C6: the check of the pins of a run that passes leaves the four paths
\* absent, and the check of a run that finds them absent (the second of two
\* in a row with nothing pinned in between) does not fail on a pin, whatever
\* unlink would do, unlinks nothing and leaves the four paths absent: with
\* the directories of the first in place it passes unless the bpffs is no
\* longer mounted.
C6_ReconcileTwice ==
    [][(pc = "parse" /\ command = "run") =>
          /\ pc' = "dispatch" => AllAbsent(pins')
          /\ AllAbsent(pins) =>
                /\ pins' = pins
                /\ ~unpinned'
                /\ diag' \notin {"could not unpin map", "could not access map"}
                /\ dirs = {"cov", "prog"} =>
                      \/ pc' = "dispatch" /\ diag' = ""
                      \/ pc' = "exited" /\ diag' = "the BPF filesystem is not mounted"]_vars

\* The check of a second run in a row, with nothing pinned since the first,
\* has passed and has unlinked nothing.
C6_SecondRunPassed ==
    /\ command = "run" /\ inv = 2 /\ lastRun = 1 /\ pc = "dispatch"
    /\ ~unpinned /\ AllAbsent(pins)

\* ------------------------------------------------- the output file of gen
\* The k-th 8-byte field of the output file, and a field read as four
\* 16-bit limbs, least significant first.
Field(k) == SubSeq(outfile, 8 * (k - 1) + 1, 8 * k)
Limbs(b) == [j \in 1 .. Len(b) \div 2 |-> b[2 * j - 1] + 256 * b[2 * j]]
Limbs64(n) == <<n % 65536, n \div 65536, 0, 0>>
Zero64 == <<0, 0, 0, 0, 0, 0, 0, 0>>

\* v + 1 as a 64-bit integer, in limbs, for the 32-bit v of the four bytes.
PlusOne(b) ==
    LET lo == b[1] + 256 * b[2]
        hi == b[3] + 256 * b[4]
        c1 == (lo + 1) \div 65536
    IN  <<(lo + 1) % 65536, (hi + c1) % 65536, (hi + c1) \div 65536, 0>>

CovVersionBytes == SubSeq(pins[3].entries[1], VERSION_OFFSET + 1, VERSION_OFFSET + 4)
GenSucceeded == command = "gen" /\ pc = "exited" /\ status = 0 /\ ~outfp.err

C8_NamesSizeTwice ==
    (command = "gen" /\ Len(outfile) >= 56) =>
        /\ Limbs(SubSeq(outfile, 49, 52)) = <<pins[2].value_size, 0>>
        /\ Limbs(SubSeq(outfile, 53, 56)) = <<pins[2].value_size, 0>>

\* A names map of value size 5 with one entry: the field is 5, then 1.
C8_SecondHalfIsMaxEntries ==
    /\ command = "gen"
    /\ pins[2].value_size = 5 /\ pins[2].max_entries = 1
    /\ Len(outfile) >= 56
    /\ SubSeq(outfile, 49, 56) = <<5, 0, 0, 0, 1, 0, 0, 0>>

\* C9: once gen has written the version field from a coverage header of at
\* least 16 bytes, the field is v + 1 as a 64-bit integer, v being bytes 12
\* to 15 of the header read as a little-endian 32-bit integer.
C9_VersionPlusOne ==
    (command = "gen" /\ Len(outfile) >= 16 /\ pins[3].value_size >= 16) =>
        Limbs(Field(2)) = PlusOne(CovVersionBytes)

\* The largest v: 0xFFFFFFFF gives 0x100000000.
C9_LargestVersionCarried ==
    /\ command = "gen" /\ Len(outfile) >= 16
    /\ pins[3].value_size >= 16
    /\ CovVersionBytes = <<255, 255, 255, 255>>
    /\ Field(2) = <<0, 0, 0, 0, 1, 0, 0, 0>>

\* C10: once gen has written the two counts, the number of function
\* records is the data map's value size divided by 48 and the number of
\* counters the counters map's value size divided by 8 (integer
\* quotients), whatever the maps hold.
C10_CountsFromValueSizes ==
    (command = "gen" /\ Len(outfile) >= 40) =>
        /\ Limbs(Field(3)) = Limbs64(pins[1].value_size \div 48)
        /\ Limbs(Field(5)) = Limbs64(pins[0].value_size \div 8)

\* 96 bytes of data give 2 and 40 bytes of counters give 5, here with a
\* data map that holds no entry at all.
C10_TwoRecordsFiveCounters ==
    /\ command = "gen" /\ Len(outfile) >= 40
    /\ pins[1].value_size = 96 /\ pins[0].value_size = 40
    /\ pins[1].entries = <<>>
    /\ Field(3) = <<2, 0, 0, 0, 0, 0, 0, 0>>
    /\ Field(5) = <<5, 0, 0, 0, 0, 0, 0, 0>>

\* C11: when gen has ended with status 0 and none of its writes has failed,
\* the output file is 80 bytes of header, then the whole sole value of the
\* data map, then the whole sole value of the counters map, and nothing
\* else.
C11_SectionsVerbatim ==
    GenSucceeded =>
        /\ Len(pins[1].entries) = 1 /\ Len(pins[0].entries) = 1
        /\ Len(pins[1].entries[1]) = pins[1].value_size
        /\ Len(pins[0].entries[1]) = pins[0].value_size
        /\ outfile = SubSeq(outfile, 1, 80) \o pins[1].entries[1] \o pins[0].entries[1]

\* A whole file with 50 bytes of data and 12 bytes of counters.
C11_SectionsWritten ==
    /\ GenSucceeded
    /\ pins[1].value_size = FUNC_RECORD_SIZE + 2
    /\ pins[0].value_size = COUNTER_SIZE + 4
    /\ Len(outfile) = 80 + 50 + 12
    /\ outfile[81] = pins[1].entries[1][1]

\* ------------------------------------------------------- the pins of run
\* The map whose creation the iteration at "pin" has just seen return.
CreatedMap == ChildFdObj(result)
MapCreated ==
    /\ pc = "pin" /\ IsMapCreate /\ result >= 3
    /\ CreatedMap # NoObj /\ CreatedMap.kind = "map"
RecognizedSuffixes == {S_profc, S_profd, S_profn, S_covmap}

\* C12: when the child has created a map whose name has no suffix after the
\* "." or a suffix that is none of profc, profd, profn, covmap, the
\* iteration makes no pin and the tracer goes on to the next syscall: it
\* neither crashes nor aborts.
C12_UnrecognizedIgnored ==
    [][(MapCreated /\ Suffix(CreatedMap.name) \notin RecognizedSuffixes) =>
          (pins' = pins /\ pc' = "loop_top" /\ status' = NoStatus)]_vars

\* The path of the counters holds a map whose suffix is profcs.
C12_PrefixSuffixPinned ==
    /\ command = "run"
    /\ pins[0] # NoPin
    /\ Suffix(pins[0].name) = S_profc \o <<"s">>
    /\ pins[0].run = inv

\* C13: the four suffixes resolve to the four roles in the fixed order, the
\* paths of the roles are pairwise distinct and lie directly under one
\* directory, and every path the invocation uses after root_parse is one
\* of the four paths set up there.
C13_PathsFixed ==
    /\ \A p \in Roles :
          /\ get_pin_path(RoleSuffix(p)) = p
          /\ PinPath(p).dir = PinPath(0).dir
          /\ \A q \in Roles : p # q => PinPath(p) # PinPath(q)
    /\ pathUsed # NoPath => \E p \in Roles : pathUsed = PinPath(p)

\* A run that fails to pin a map at a free path, because the path it has
\* passed to bpf_obj_pin is no longer the one root_parse wrote.
C13_PinAtOverwrittenPath ==
    /\ command = "run" /\ pc = "exited" /\ diag = "run: could not pin map"
    /\ pathUsed = Clobbered
    /\ AllAbsent(pins)

\* The iteration at "pin" has duplicated a descriptor of the child that is
\* a named map, in the step that is being taken.
Exfiltrated ==
    /\ pc = "pin"
    /\ tracerFds' = tracerFds \o <<"pidfd", "curfd">>
    /\ CreatedMap # NoObj /\ CreatedMap.kind = "map" /\ Len(CreatedMap.name) > 0
ResolvedRole == get_pin_path(Suffix(CreatedMap.name))

\* C14: when the name of the duplicated map resolves to a role, either the
\* map is pinned at the path of that role, which was free, and the tracer
\* goes on, or the pin has failed and run ends at once with a status other
\* than zero and nothing pinned; a path that already holds a pin always
\* makes it end so.
C14_PinOrAbort ==
    [][(Exfiltrated /\ Suffix(CreatedMap.name) # NullStr /\ ResolvedRole \in Roles) =>
          \/ /\ pins[ResolvedRole] = NoPin
             /\ pins' = [pins EXCEPT ![ResolvedRole] = CreatedMap]
             /\ pathUsed' = PinPath(ResolvedRole)
             /\ pc' = "loop_top" /\ status' = NoStatus
          \/ /\ pins' = pins
             /\ pc' = "exited" /\ status' = EXIT_FAILURE /\ status' # 0
             /\ diag' = "run: could not pin map"]_vars

\* A run that has ended because its child created a second map for a role
\* whose path the run had pinned already.
C14_SecondPinOfRoleFatal ==
    /\ command = "run" /\ pc = "exited" /\ status = EXIT_FAILURE
    /\ diag = "run: could not pin map"
    /\ nsys = 2 /\ Len(tracerFds) = 4
    /\ \E r \in Roles : pins[r] # NoPin /\ pins[r].run = inv /\ pathUsed = PinPath(r)

\* C15: in an iteration that enters the pin block, when pidfd_open or
\* pidfd_getfd fails (the step does not obtain both descriptors), and
\* whenever the child is already gone, no pin is made, the tracer does not
\* end and it goes on to the next resume.
C15_ExfiltrationFailureSkipped ==
    [][(pc = "pin" /\ pc' # "pin" /\ is_map = 1 /\ result # 0 /\
        (childState = "dead" \/ tracerFds' # tracerFds \o <<"pidfd", "curfd">>)) =>
          /\ pins' = pins
          /\ tracerFds' # tracerFds \o <<"pidfd", "curfd">>
          /\ pc' = "loop_top" /\ status' = NoStatus]_vars

\* The child died after creating the map of the counters: the tracer holds
\* the pidfd only, has pinned nothing and is back at the top of the loop.
C15_DeadChildSkipped ==
    /\ command = "run" /\ pc = "loop_top" /\ childState = "dead"
    /\ IsMapCreate /\ result >= 3
    /\ CreatedMap # NoObj /\ CreatedMap.name = Named(S_profc)
    /\ tracerFds = <<"pidfd">>
    /\ AllAbsent(pins)

\* A step of the tracer in which a trace-control call fails, other than the
\* register read at the syscall-exit stop: PTRACE_SETOPTIONS on a child that
\* has ended before its first stop, a resume of a dead child, or the
\* register read at the syscall-entry stop of a dead child.
TraceControlFails ==
    \/ pc = "run_fork" /\ childState' = "dead"
    \/ pc \in {"loop_top", "wait_entry", "resume_exit"} /\ pc' # pc /\ childState = "dead"

\* C16: a step of run in which a trace-control call fails (other than the
\* register read at the syscall-exit stop) ends run with a status other
\* than zero, so that no resume, register read or pin follows it.
C16_TraceFailureFatal ==
    [][TraceControlFails => (pc' = "exited" /\ status' # 0 /\ status' # NoStatus)]_vars

\* The child has ended before its first stop, PTRACE_SETOPTIONS has failed,
\* and the tracer is at the top of its loop, about to resume the child.
C16_LoopEnteredAfterFailedSetup ==
    /\ command = "run" /\ pc = "loop_top" /\ lastRun = inv
    /\ childState = "dead" /\ childTerm = Exited(EXIT_FAILURE)
    /\ nsys = 0 /\ ~exitkill

\* C17: gen does not end with status 0 after a write to the output stream
\* or its close has failed: status 0 means that the header, the data
\* section and the counters section are all in the file.
C17_WriteFailureFatal ==
    (command = "gen" /\ pc = "exited" /\ status = 0) =>
        /\ ~outfp.err
        /\ Len(outfile) = 80 + pins[1].value_size + pins[0].value_size

\* gen has ended with status 0 and a file that holds the magic only.
C17_ZeroAfterFailedWrite ==
    /\ command = "gen" /\ pc = "exited" /\ status = 0 /\ diag = ""
    /\ outfp.err
    /\ outfile = MAGIC

\* The map at the path of role p declares more than one entry, or holds
\* none.
NoSoleValue(p) == pins[p].max_entries > 1 \/ Len(pins[p].entries) = 0

\* C18: when gen comes to fetch the sole value of the coverage header, of
\* the data map or of the counters map, and that map declares more than one
\* entry or holds none, gen ends with a status other than zero and the
\* output file is left as it was: the version, or the section, is not
\* written.
C18_NoSoleValueFatal ==
    [][\A p \in {0, 1, 3} :
          (pc = (CASE p = 3 -> "gen_version" [] p = 1 -> "gen_data" [] OTHER -> "gen_counters")
           /\ NoSoleValue(p)) =>
              /\ pc' = "exited" /\ status' = EXIT_FAILURE /\ status' # 0
              /\ diag' = "could not get global data from map"
              /\ outfile' = outfile]_vars

\* gen has ended after the header, on a data map declared for two entries.
C18_DataMapOfTwoEntries ==
    /\ command = "gen" /\ pc = "exited" /\ status = EXIT_FAILURE
    /\ diag = "could not get global data from map"
    /\ pins[1].max_entries = 2 /\ pathUsed = PinPath(1)
    /\ Len(outfile) = 80

\* C19: no step of a gen invocation, from the parsing of its arguments to
\* its exit, whether it fails or not, changes the directories or the pins
\* of the bpffs.
C19_GenReadsOnly ==
    [][(command = "gen" /\ pc # "exited") => (pins' = pins /\ dirs' = dirs)]_vars

\* A gen that has written its file and left in place the four pins and
\* the directories it has found.
C19_GenDoneOverPins ==
    /\ command = "gen" /\ pc = "exited" /\ status = 0 /\ ~outfp.err
    /\ Len(outfile) > 80
    /\ \A p \in Roles : pins[p] = StaleMap(p)
    /\ dirs = {"cov", "prog"}

\* C20: at the top of the loop of run() the tracer holds no pidfd and no
\* descriptor duplicated out of the child: those of the iterations before
\* have all been closed.
C20_NoDescriptorRetained == (command = "run" /\ pc = "loop_top") => tracerFds = <<>>

\* Two maps created and pinned, and the four descriptors of the two
\* iterations still open at the top of the loop.
C20_DescriptorsAccumulate ==
    /\ command = "run" /\ pc = "loop_top" /\ nsys = 2
    /\ tracerFds = <<"pidfd", "curfd", "pidfd", "curfd">>
    /\ \E p, q \in Roles :
          p # q /\ pins[p] # NoPin /\ pins[q] # NoPin /\ pins[p].run = inv /\ pins[q].run = inv

\* C21: an iteration for a bpf(BPF_MAP_CREATE, ...) whose result is negative
\* (the call has failed) or zero opens no handle of the child, duplicates no
\* descriptor and makes no pin.
C21_FailedCreateNoExfiltration ==
    [][(pc = "pin" /\ pc' # "pin" /\ IsMapCreate /\ result <= 0) =>
          (tracerFds' = tracerFds /\ pins' = pins)]_vars

\* The creation of a map has failed with -1, and the tracer is back at the
\* top of the loop with a pidfd it has opened for it.
C21_HandleOpenedForFailedCreate ==
    /\ command = "run" /\ pc = "loop_top" /\ nsys = 1
    /\ IsMapCreate /\ result = -1
    /\ tracerFds = <<"pidfd">>

\* ------------------------------------------------------ the stops of run
\* C23: in every iteration of the loop of run(), the first stop the tracer
\* has waited for is the entry of a syscall of the child and the second is
\* the exit of that same syscall, so that the number and first argument it
\* has recorded and the result it has read belong to one syscall, whatever
\* stops the child makes in between.
C23_StopsInStep ==
    /\ (command = "run" /\ pc = "resume_exit" /\ childState # "dead")
            => childState = "entry_stop"
    /\ (command = "run" /\ pc = "pin" /\ childState # "dead")
            => /\ childState = "exit_stop"
               /\ sysc = childSys.nr /\ comm = childSys.arg0
               /\ result = childRegs.rax

\* The child has stopped for a signal and has then created the map of the
\* counters, as descriptor 3: the tracer has taken the entry stop of the
\* next syscall for the exit of the creation, has read -ENOSYS as its
\* result, and has pinned nothing.
C23_EntryTakenForExit ==
    /\ command = "run" /\ pc = "loop_top" /\ childState = "entry_stop"
    /\ nsig = 1 /\ nsys = 2
    /\ Len(childFds) = 1 /\ childFds[1].name = Named(S_profc)
    /\ IsMapCreate /\ result = ENOSYS_RESULT
    /\ AllAbsent(pins)

\* The child has been resumed at least once.
ChildResumed ==
    \/ childState \in {"running", "entry_stop", "in_syscall", "exit_stop", "signal_stop"}
    \/ nsys > 0 \/ nsig > 0

\* C22: in a run, PTRACE_O_EXITKILL is set on the child when the tracer
\* comes to resume it for the first time and in every state in which the
\* child has been resumed at least once, and whenever the tracer has ended,
\* killed or not, no child is left alive.
C22_ExitKillBeforeResume ==
    command = "run" =>
        /\ (pc = "loop_top" /\ childState = "init_stop") => exitkill
        /\ ChildResumed => exitkill
        /\ pc = "exited" => ~ChildAlive

\* The tracer has been killed while its child was in its second syscall,
\* and the child has been killed with it.
C22_ChildKilledWithTracer ==
    /\ command = "run" /\ pc = "exited" /\ status = KilledStatus(SIGKILL)
    /\ exitkill /\ nsys = 2
    /\ childState = "dead" /\ childTerm = Signaled(SIGKILL)
    /\ childSys.nr = SYS_read

LoopPcs == {"loop_top", "wait_entry", "resume_exit", "wait_exit", "pin"}

IsPrefix(a, b) == Len(a) <= Len(b) /\ a = SubSeq(b, 1, Len(a))

\* The sections of the complete profile, as far as the pinned maps give
\* them: the first value of the data map, then that of the counters map.
FirstValue(p) == IF Len(pins[p].entries) >= 1 THEN pins[p].entries[1] ELSE <<>>

\* C25: a step of gen that queries one of the four maps leaves the output
\* file and the stream as they are, and ends gen with a status other than
\* zero when the path it has used is not that of the pin; the output is
\* opened only when the info of all four maps has been read; and when gen
\* has ended on the fetch of a map's value, the file holds a strict prefix
\* of the complete profile: of the magic, the version, the eight size
\* fields, the data and the counters.
C25_OpenAfterAllInfo ==
    /\ [][pc = "gen_info" =>
             /\ outfile' = outfile /\ outfp' = outfp
             /\ pc' \in {"gen_info", "gen_open", "exited"}
             /\ pc' = "exited" => (status' # 0 /\ status' # NoStatus)
             /\ pathUsed' = Clobbered => pc' = "exited"]_vars
    /\ [][(outfile' # outfile \/ outfp' # outfp) =>
             (gp = NUM_PINNED_MAPS /\ \A p \in Roles : info[p] = MapInfo(pins[p]))]_vars
    /\ [](( /\ command = "gen" /\ pc = "exited"
            /\ diag = "could not get global data from map" ) =>
             LET n == Len(outfile)
                 d == pins[1].value_size
                 c == pins[0].value_size
             IN  /\ status # 0
                 /\ n < 80 + d + c
                 /\ IF n < 8 THEN IsPrefix(outfile, MAGIC) ELSE Field(1) = MAGIC
                 /\ (n >= 16 /\ pins[3].value_size >= 16)
                        => Limbs(Field(2)) = PlusOne(CovVersionBytes)
                 /\ n >= 40 => /\ Limbs(Field(3)) = Limbs64(d \div 48)
                               /\ Limbs(Field(5)) = Limbs64(c \div 8)
                 /\ n >= 80 => Limbs(Field(10)) = <<1, 0, 0, 0>>
                 /\ n > 80 => IsPrefix(SubSeq(outfile, 81, n), FirstValue(1) \o FirstValue(0)))

\* gen has found a file at the output path and has ended on the query of
\* the fourth map, after three that went well: the file is as it was.
C25_OldFileKeptOnInfoFailure ==
    /\ command = "gen" /\ pc = "exited" /\ status = EXIT_FAILURE
    /\ diag = "could not get info about pinned map"
    /\ gp = 3 /\ pathUsed = Clobbered
    /\ outfile = OldFile /\ ~outfp.open

\* ------------------------------------------------------------ the pin root
\* C26: once root_parse has set up its paths, the cov directory is
\* <bpffs>/cov, the pin root is <bpffs>/cov/<name'>, name' being the base
\* name of the program with every "." replaced by "_" and the components
\* before it being kept as given, and the four role paths are the pin root
\* followed by the role's suffix.
C26_PinRootUnderCov ==
    args.prog_root # <<>> =>
        /\ args.cov_root = Join(args.bpffs, S_cov)
        /\ args.prog_root = Join(args.cov_root, replace_with(basename(args.program), ".", "_"))
        /\ \A p \in Roles : args.pin[p + 1] = Join(args.prog_root, RoleSuffix(p))

\* A run with --bpffs /b.d and the program p.o: the cov directory is
\* /b.d/cov and the pin root /b_d/cov/p_o.
C26_BpffsRewritten ==
    /\ command = "run" /\ pc = "run_fork"
    /\ args.bpffs = <<"/", "b", ".", "d">>
    /\ args.program = <<"p", ".", "o">>
    /\ args.cov_root = <<"/", "b", ".", "d", "/", "c", "o", "v">>
    /\ args.prog_root = <<"/", "b", "_", "d", "/", "c", "o", "v", "/", "p", "_", "o">>

====
